---------------------------- MODULE Spec2Model ----------------------------
(***************************************************************************)
(* Model of the restaurant multi-agent voice application                   *)
(* (src/02_restaurant_agent.py): the shared UserData record, the tools of  *)
(* the four agents, the handoff between agents and the truncation of the   *)
(* chat context that is carried over on a handoff.                         *)
(***************************************************************************)
EXTENDS Integers, Sequences, FiniteSets, TLC

VARIABLES
    current_agent,         \* session.current_agent: name of the agent that owns the conversation
    userdata,              \* the UserData record shared by all agents
    pc,                    \* "entering": on_enter of current_agent is pending
                           \* "idle":     the session waits for the next model output
                           \* "handoff":  a tool returned (Agent, str); the session has not switched yet
    tool,                  \* name of the last tool executed (NoTool after a plain text reply)
    ret,                   \* value returned by the last tool: [agent, msg]
    entered,               \* agent whose on_enter completed last
    lastFrom,              \* history: agent that was current before the most recent switch
    before,                \* history: prev_agent, current agent and checked_out when the last tool started
    steps,                 \* tool calls executed in the turn in progress
    on_enter_runs,         \* on_enter runs completed since current_agent became current
    chat_ctx,              \* chat_ctx.items of each agent
    next_id,               \* the id the next new chat item gets
    track_ctx,             \* whether the specification carries the agents' chat contexts
    items,                 \* _truncate_chat_ctx: argument items
    keep_last_n_messages,  \* _truncate_chat_ctx: argument keep_last_n_messages
    keep_system_message,   \* _truncate_chat_ctx: argument keep_system_message
    keep_function_call,    \* _truncate_chat_ctx: argument keep_function_call
    new_items,             \* _truncate_chat_ctx: value returned by the last call
    tpc                    \* "off" | "input" | "once" | "twice": calls of _truncate_chat_ctx made

agentVars == <<current_agent, userdata, pc, tool, ret, entered, lastFrom, before, steps, on_enter_runs>>
truncVars == <<items, keep_last_n_messages, keep_system_message, keep_function_call, new_items, tpc>>
ctxVars == <<chat_ctx, next_id, track_ctx>>
vars == <<agentVars, truncVars, ctxVars>>

----------------------------------------------------------------------------
(* Values *)

\* Python None for an Optional field: the empty tuple; a set value v is <<v>>.
None == <<>>
Some(v) == <<v>>

NoAgent == "none"
NoTool == "none"

AgentNames == {"greeter", "reservation", "takeaway", "checkout"}

\* userdata.agents: the registry built once by entrypoint; an agent instance
\* is identified by the name it is registered under.
agents == [n \in AgentNames |-> n]

\* Strings a tool can receive from the model ("" is a legal str argument).
StrArgs == {"", "x"}
\* Floats the model can pass to confirm_expense (0 stands for 0.0, 10 for 10.0).
FloatArgs == {0, 10}
\* Lists the model can pass to update_order.
ListArgs == {<<>>, <<"pizza">>, <<"pizza", "cafe">>}

\* The UserData record as constructed by UserData() in entrypoint.
UserData ==
    [customer_name |-> None,
     customer_phone |-> None,
     reservation_time |-> None,
     order |-> <<>>,
     expense |-> None,
     customer_credit_card |-> None,
     customer_credit_card_expiry |-> None,
     customer_credit_card_cvv |-> None,
     checked_out |-> FALSE,
     prev_agent |-> NoAgent,
     agents |-> [n \in {} |-> n]]

\* Python truthiness, as used by `not userdata.<field>` in the guards.
TruthyStr(o) == o # None /\ o[1] # ""
TruthyFloat(o) == o # None /\ o[1] # 0
TruthyList(l) == l # <<>>

\* str(float) for the integral floats of FloatArgs.
FloatStr(e) == ToString(e) \o ".0"

\* str(list[str]), as formatted into update_order's reply.
RECURSIVE ListBody(_)
ListBody(l) ==
    IF l = <<>> THEN ""
    ELSE "'" \o Head(l) \o "'" \o (IF Len(l) > 1 THEN ", " ELSE "") \o ListBody(Tail(l))
ListStr(l) == "[" \o ListBody(l) \o "]"

\* A tool's outcome: the record after the call and the value returned.
\* A returned str is [agent |-> NoAgent, msg |-> str]; a returned
\* (Agent, str) is [agent |-> Agent, msg |-> str].
Str(ud, s) == [ud |-> ud, ret |-> [agent |-> NoAgent, msg |-> s]]

\* The text of the KeyError a lookup of a missing key raises.
KeyError(key) == "KeyError: '" \o key \o "'"

----------------------------------------------------------------------------
(* Tools: each maps the record and the session's current agent to an outcome *)

\* A handoff that starts from a new record.
transfer_to_agent_new_record(ud, cur, name) ==
    IF name \in DOMAIN ud.agents
    THEN [ud |-> [UserData EXCEPT !.prev_agent = cur, !.checked_out = ud.checked_out,
                                  !.agents = ud.agents],
          ret |-> [agent |-> ud.agents[name], msg |-> "Transferring to " \o name \o "."]]
    ELSE Str(ud, KeyError(name))

\* userdata.agents[name] raises KeyError when name is not a key: the tool
\* ends there, before it writes prev_agent, and the caller gets the error
\* in place of the tool's output.
transfer_to_agent(ud, cur, name) ==
    IF name \in DOMAIN ud.agents
    THEN [ud |-> [ud EXCEPT !.prev_agent = cur],
          ret |-> [agent |-> ud.agents[name], msg |-> "Transferring to " \o name \o "."]]
    ELSE Str(ud, KeyError(name))

update_name(ud, name) ==
    Str([ud EXCEPT !.customer_name = Some(name)], "The name is updated to " \o name)

update_phone(ud, phone) ==
    Str([ud EXCEPT !.customer_phone = Some(phone)], "The phone number is updated to " \o phone)

to_greeter(ud, cur) == transfer_to_agent(ud, cur, "greeter")

Greeter_to_reservation(ud, cur) == transfer_to_agent(ud, cur, "reservation")

\* Greeter.to_takeaway naming the wrong registry key.
Greeter_to_takeaway_wrong_target(ud, cur) == transfer_to_agent(ud, cur, "checkout")

Greeter_to_takeaway(ud, cur) == transfer_to_agent(ud, cur, "takeaway")

update_reservation_time(ud, time) ==
    Str([ud EXCEPT !.reservation_time = Some(time)], "The reservation time is updated to " \o time)

\* confirm_reservation without the check of reservation_time.
confirm_reservation_no_time_check(ud, cur) ==
    IF ~TruthyStr(ud.customer_name) \/ ~TruthyStr(ud.customer_phone)
    THEN Str(ud, "Please provide your name and phone number first.")
    ELSE transfer_to_agent(ud, cur, "greeter")

confirm_reservation(ud, cur) ==
    IF ~TruthyStr(ud.customer_name) \/ ~TruthyStr(ud.customer_phone)
    THEN Str(ud, "Please provide your name and phone number first.")
    ELSE IF ~TruthyStr(ud.reservation_time)
    THEN Str(ud, "Please provide reservation time first.")
    ELSE transfer_to_agent(ud, cur, "greeter")

\* update_order that adds the items to the order.
update_order_appends(ud, its) ==
    Str([ud EXCEPT !.order = @ \o its], "The order is updated to " \o ListStr(its))

update_order(ud, its) ==
    Str([ud EXCEPT !.order = its], "The order is updated to " \o ListStr(its))

\* to_checkout without the check of the order.
to_checkout_no_order_check(ud, cur) == transfer_to_agent(ud, cur, "checkout")

to_checkout(ud, cur) ==
    IF ~TruthyList(ud.order)
    THEN Str(ud, "No takeaway order found. Please make an order first.")
    ELSE transfer_to_agent(ud, cur, "checkout")

confirm_expense(ud, expense) ==
    Str([ud EXCEPT !.expense = Some(expense)],
        "The expense is confirmed to be " \o FloatStr(expense))

update_credit_card(ud, number, expiry, cvv) ==
    Str([ud EXCEPT !.customer_credit_card = Some(number),
                   !.customer_credit_card_expiry = Some(expiry),
                   !.customer_credit_card_cvv = Some(cvv)],
        "The credit card number is updated to " \o number)

\* confirm_checkout without the check of the credit card fields.
confirm_checkout_no_card_check(ud, cur) ==
    IF ~TruthyFloat(ud.expense)
    THEN Str(ud, "Please confirm the expense first.")
    ELSE to_greeter([ud EXCEPT !.checked_out = TRUE], cur)

\* confirm_checkout setting checked_out before it validates.
confirm_checkout_marks_first(ud, cur) ==
    LET marked == [ud EXCEPT !.checked_out = TRUE] IN
    IF ~TruthyFloat(ud.expense)
    THEN Str(marked, "Please confirm the expense first.")
    ELSE IF \/ ~TruthyStr(ud.customer_credit_card)
            \/ ~TruthyStr(ud.customer_credit_card_expiry)
            \/ ~TruthyStr(ud.customer_credit_card_cvv)
    THEN Str(marked, "Please provide the credit card information first.")
    ELSE to_greeter(marked, cur)

confirm_checkout(ud, cur) ==
    IF ~TruthyFloat(ud.expense)
    THEN Str(ud, "Please confirm the expense first.")
    ELSE IF \/ ~TruthyStr(ud.customer_credit_card)
            \/ ~TruthyStr(ud.customer_credit_card_expiry)
            \/ ~TruthyStr(ud.customer_credit_card_cvv)
    THEN Str(ud, "Please provide the credit card information first.")
    ELSE to_greeter([ud EXCEPT !.checked_out = TRUE], cur)

Checkout_to_takeaway(ud, cur) == transfer_to_agent(ud, cur, "takeaway")

----------------------------------------------------------------------------
(* BaseAgent._truncate_chat_ctx *)

\* The kinds of llm.ChatItem: a message with a role, a function call, a
\* function call output (role is "" for the last two, which have none).
ItemKinds ==
    {[type |-> "message", role |-> "system"],
     [type |-> "message", role |-> "user"],
     [type |-> "message", role |-> "assistant"],
     [type |-> "function_call", role |-> ""],
     [type |-> "function_call_output", role |-> ""]}

FunctionCallTypes == {"function_call", "function_call_output"}

\* _valid_item, the filter nested in _truncate_chat_ctx.
valid_item(item, keep_sys, keep_fc) ==
    IF ~keep_sys /\ item.type = "message" /\ item.role = "system" THEN FALSE
    ELSE IF ~keep_fc /\ item.type \in FunctionCallTypes THEN FALSE
    ELSE TRUE

\* The loop `for item in reversed(items)`: i is the position of the item the
\* loop is at (0 when the items are exhausted), acc the new_items so far.
RECURSIVE ScanBack(_, _, _, _, _, _)
ScanBack(its, i, acc, n, keep_sys, keep_fc) ==
    IF i = 0 THEN acc
    ELSE LET kept == IF valid_item(its[i], keep_sys, keep_fc)
                     THEN Append(acc, its[i]) ELSE acc
         IN IF Len(kept) >= n THEN kept
            ELSE ScanBack(its, i - 1, kept, n, keep_sys, keep_fc)

\* The reversal back to chronological order left out.
NotReversed(s) == s

\* new_items[::-1]
Reversed(s) == [i \in 1..Len(s) |-> s[Len(s) + 1 - i]]

\* An `if` in place of the `while`: at most one item is popped.
PopLeading_once(s) ==
    IF s # <<>> /\ s[1].type \in FunctionCallTypes THEN Tail(s) ELSE s

\* while new_items and new_items[0].type in [...]: new_items.pop(0)
RECURSIVE PopLeading(_)
PopLeading(s) ==
    IF s # <<>> /\ s[1].type \in FunctionCallTypes THEN PopLeading(Tail(s)) ELSE s

truncate_chat_ctx(its, n, keep_sys, keep_fc) ==
    PopLeading(Reversed(ScanBack(its, Len(its), <<>>, n, keep_sys, keep_fc)))

\* keep_last_n_messages: int = 6
DefaultKeepLastN == 6

----------------------------------------------------------------------------
(* Chat contexts and BaseAgent.on_enter *)

\* self.__class__.__name__
ClassName(a) ==
    CASE a = "greeter" -> "Greeter"
      [] a = "reservation" -> "Reservation"
      [] a = "takeaway" -> "Takeaway"
      [] a = "checkout" -> "Checkout"

\* UserData.summarize(): the customer's data held by the record.
summarize(ud) ==
    [customer_name |-> ud.customer_name,
     customer_phone |-> ud.customer_phone,
     reservation_time |-> ud.reservation_time,
     order |-> ud.order,
     customer_credit_card |-> ud.customer_credit_card,
     customer_credit_card_expiry |-> ud.customer_credit_card_expiry,
     customer_credit_card_cvv |-> ud.customer_credit_card_cvv,
     expense |-> ud.expense,
     checked_out |-> ud.checked_out]

\* A chat message; content is <<>> when the model does not look into it.
Message(id, role, content) ==
    [type |-> "message", role |-> role, id |-> id, call_id |-> 0, content |-> content]

\* The pair of items a tool call leaves: the call and its output.
FunctionCall(id) ==
    [type |-> "function_call", role |-> "", id |-> id, call_id |-> id, content |-> <<>>]

FunctionCallOutput(id, call_id) ==
    [type |-> "function_call_output", role |-> "", id |-> id, call_id |-> call_id,
     content |-> <<>>]

\* f"Eres el agente {agent_name}. Los datos actuales del usuario son {userdata.summarize()}"
SummaryContent(a, ud) == <<ClassName(a), summarize(ud)>>

\* {item.id for item in chat_ctx.items}
Ids(its) == {its[i].id : i \in 1..Len(its)}

\* The comprehension without its condition.
NotIn_keeps_all(its, existing_ids) == its

\* [item for item in items_copy if item.id not in existing_ids]
NotIn(its, existing_ids) ==
    LET keep(item) == item.id \notin existing_ids IN SelectSeq(its, keep)

\* The truncation called with its default keep_function_call.
items_copy_without_function_calls(ctx, self, ud) ==
    IF ud.prev_agent # NoAgent
    THEN NotIn(truncate_chat_ctx(ctx[ud.prev_agent], DefaultKeepLastN, FALSE, FALSE),
               Ids(ctx[self]))
    ELSE <<>>

\* The items on_enter takes over from the previous agent.
items_copy(ctx, self, ud) ==
    IF ud.prev_agent # NoAgent
    THEN NotIn(truncate_chat_ctx(ctx[ud.prev_agent], DefaultKeepLastN, FALSE, TRUE),
               Ids(ctx[self]))
    ELSE <<>>

\* on_enter without chat_ctx.add_message.
on_enter_ctx_without_summary(ctx, self, ud, id) ==
    ctx[self] \o items_copy(ctx, self, ud)

\* The items on_enter gives agent self with update_chat_ctx; id is the id of
\* the message it adds.
on_enter_ctx(ctx, self, ud, id) ==
    ctx[self] \o items_copy(ctx, self, ud)
              \o <<Message(id, "system", SummaryContent(self, ud))>>

\* Bound on the number of chat items created in a behaviour.
MaxItems == 13

----------------------------------------------------------------------------
(* The session *)

\* A limit that lets one call too many through.
max_tool_steps_off_by_one == 5 + 1

\* AgentSession(..., max_tool_steps=5)
max_tool_steps == 5

\* What the history variable `before` records when a tool starts.
Snapshot(ud, cur) ==
    [prev_agent |-> ud.prev_agent, current_agent |-> cur, checked_out |-> ud.checked_out]

\* The session runs tool t of the current agent; r is the tool's outcome.
\* A returned agent is applied by the session afterwards (UpdateAgent).
\* At most max_tool_steps tool calls run in one turn.
Execute(t, r) ==
    /\ pc = "idle"
    /\ steps < max_tool_steps
    /\ userdata' = r.ud
    /\ ret' = r.ret
    /\ tool' = t
    /\ pc' = IF r.ret.agent # NoAgent THEN "handoff" ELSE "idle"
    /\ before' = Snapshot(userdata, current_agent)
    /\ steps' = steps + 1
    /\ IF track_ctx
       THEN /\ next_id + 2 <= MaxItems
            /\ chat_ctx' = [chat_ctx EXCEPT ![current_agent] =
                               @ \o <<FunctionCall(next_id),
                                      FunctionCallOutput(next_id + 1, next_id)>>]
            /\ next_id' = next_id + 2
       ELSE UNCHANGED <<chat_ctx, next_id>>
    /\ UNCHANGED <<current_agent, entered, lastFrom, on_enter_runs, truncVars, track_ctx>>

\* update_name in the tools of every agent.
CallUpdateName_every_agent ==
    /\ current_agent \in AgentNames
    /\ \E name \in StrArgs : Execute("update_name", update_name(userdata, name))

CallUpdateName ==
    /\ current_agent \in {"reservation", "checkout"}
    /\ \E name \in StrArgs : Execute("update_name", update_name(userdata, name))

CallUpdatePhone ==
    /\ current_agent \in {"reservation", "checkout"}
    /\ \E phone \in StrArgs : Execute("update_phone", update_phone(userdata, phone))

CallToGreeter ==
    /\ current_agent \in {"reservation", "takeaway", "checkout"}
    /\ Execute("to_greeter", to_greeter(userdata, current_agent))

CallGreeterToReservation ==
    /\ current_agent = "greeter"
    /\ Execute("to_reservation", Greeter_to_reservation(userdata, current_agent))

CallGreeterToTakeaway ==
    /\ current_agent = "greeter"
    /\ Execute("to_takeaway", Greeter_to_takeaway(userdata, current_agent))

CallUpdateReservationTime ==
    /\ current_agent = "reservation"
    /\ \E time \in StrArgs :
         Execute("update_reservation_time", update_reservation_time(userdata, time))

CallConfirmReservation ==
    /\ current_agent = "reservation"
    /\ Execute("confirm_reservation", confirm_reservation(userdata, current_agent))

\* update_order as a tool of the checkout agent too.
CallUpdateOrder_also_at_checkout ==
    /\ current_agent \in {"takeaway", "checkout"}
    /\ \E its \in ListArgs : Execute("update_order", update_order(userdata, its))

CallUpdateOrder ==
    /\ current_agent = "takeaway"
    /\ \E its \in ListArgs : Execute("update_order", update_order(userdata, its))

CallToCheckout ==
    /\ current_agent = "takeaway"
    /\ Execute("to_checkout", to_checkout(userdata, current_agent))

CallConfirmExpense ==
    /\ current_agent = "checkout"
    /\ \E expense \in FloatArgs : Execute("confirm_expense", confirm_expense(userdata, expense))

CallUpdateCreditCard ==
    /\ current_agent = "checkout"
    /\ \E number \in StrArgs, expiry \in StrArgs, cvv \in StrArgs :
         Execute("update_credit_card", update_credit_card(userdata, number, expiry, cvv))

CallConfirmCheckout ==
    /\ current_agent = "checkout"
    /\ Execute("confirm_checkout", confirm_checkout(userdata, current_agent))

CallCheckoutToTakeaway ==
    /\ current_agent = "checkout"
    /\ Execute("to_takeaway", Checkout_to_takeaway(userdata, current_agent))

\* The model answers with plain text: no tool runs, and the turn ends.
TextReply ==
    /\ pc = "idle"
    /\ tool' = NoTool
    /\ ret' = [agent |-> NoAgent, msg |-> ""]
    /\ steps' = 0
    /\ IF track_ctx
       THEN /\ next_id + 1 <= MaxItems
            /\ chat_ctx' = [chat_ctx EXCEPT ![current_agent] =
                               Append(@, Message(next_id, "assistant", <<>>))]
            /\ next_id' = next_id + 1
       ELSE UNCHANGED <<chat_ctx, next_id>>
    /\ UNCHANGED <<current_agent, userdata, pc, entered, lastFrom, before, on_enter_runs,
                   truncVars, track_ctx>>

\* The user speaks: the transcript joins the current agent's context and a
\* turn begins.
UserMessage ==
    /\ pc = "idle"
    /\ track_ctx
    /\ next_id + 1 <= MaxItems
    /\ chat_ctx' = [chat_ctx EXCEPT ![current_agent] =
                       Append(@, Message(next_id, "user", <<>>))]
    /\ next_id' = next_id + 1
    /\ steps' = 0
    /\ UNCHANGED <<current_agent, userdata, pc, tool, ret, entered, lastFrom, before,
                   on_enter_runs, truncVars, track_ctx>>

\* The model asks for one more tool after max_tool_steps calls in the turn:
\* the call is not executed, the turn ends and the user speaks next.
MaxToolStepsReached ==
    /\ pc = "idle"
    /\ steps = max_tool_steps
    /\ steps' = 0
    /\ UNCHANGED <<current_agent, userdata, pc, tool, ret, entered, lastFrom, before,
                   on_enter_runs, truncVars, ctxVars>>

\* The session applies the (Agent, str) a tool returned: the returned agent
\* becomes session.current_agent and its on_enter is scheduled.
UpdateAgent ==
    /\ pc = "handoff"
    /\ lastFrom' = current_agent
    /\ current_agent' = ret.agent
    /\ pc' = "entering"
    /\ on_enter_runs' = 0
    /\ UNCHANGED <<userdata, tool, ret, entered, before, steps, truncVars, ctxVars>>

\* on_enter whose generate_reply() leaves the tool choice open: the reply it
\* triggers calls a handoff tool of the entered agent.
on_enter_tools_allowed ==
    LET r == IF current_agent = "greeter"
             THEN Greeter_to_reservation(userdata, current_agent)
             ELSE to_greeter(userdata, current_agent)
    IN /\ pc = "entering"
       /\ entered' = current_agent
       /\ on_enter_runs' = on_enter_runs + 1
       /\ userdata' = r.ud
       /\ ret' = r.ret
       /\ tool' = IF current_agent = "greeter" THEN "to_reservation" ELSE "to_greeter"
       /\ pc' = "handoff"
       /\ before' = Snapshot(userdata, current_agent)
       /\ UNCHANGED <<current_agent, lastFrom, steps, truncVars, ctxVars>>

\* BaseAgent.on_enter of the current agent, up to generate_reply(tool_choice="none").
\* The agents' chat contexts are not part of this specification's state; the
\* truncation on_enter applies to them is specified by TruncSpec below.
on_enter ==
    /\ pc = "entering"
    /\ entered' = current_agent
    /\ on_enter_runs' = on_enter_runs + 1
    /\ pc' = "idle"
    /\ IF track_ctx
       THEN /\ chat_ctx' = [chat_ctx EXCEPT ![current_agent] =
                               on_enter_ctx(chat_ctx, current_agent, userdata, next_id)]
            /\ next_id' = next_id + 1
       ELSE UNCHANGED <<chat_ctx, next_id>>
    /\ UNCHANGED <<current_agent, userdata, tool, ret, lastFrom, before, steps, truncVars,
                   track_ctx>>

\* The turn in flight is aborted (the user barges in) after a tool returned
\* an agent and before the entered agent's on_enter has completed: what is
\* still pending of the handoff is dropped; nothing that was written is undone.
Cancel ==
    /\ pc \in {"handoff", "entering"}
    /\ ret.agent # NoAgent
    /\ pc' = "idle"
    /\ steps' = 0
    /\ UNCHANGED <<current_agent, userdata, tool, ret, entered, lastFrom, before,
                   on_enter_runs, truncVars, ctxVars>>

----------------------------------------------------------------------------
(* Specification of the session: entrypoint starts it with the greeter *)

\* The session as entrypoint starts it with the dict reg put in
\* userdata.agents: the agents are constructed without a chat_ctx, the record
\* is new, the greeter is about to be entered. Without a greeter in reg,
\* userdata.agents["greeter"] raises and no session starts.
SessionStart(reg) ==
    /\ current_agent = IF "greeter" \in DOMAIN reg THEN reg["greeter"] ELSE NoAgent
    /\ userdata = [UserData EXCEPT !.agents = reg]
    /\ pc = IF "greeter" \in DOMAIN reg THEN "entering" ELSE "failed"
    /\ tool = NoTool
    /\ ret = [agent |-> NoAgent, msg |-> ""]
    /\ entered = NoAgent
    /\ lastFrom = NoAgent
    /\ before = Snapshot(UserData, IF "greeter" \in DOMAIN reg THEN reg["greeter"]
                                                            ELSE NoAgent)
    /\ steps = 0
    /\ on_enter_runs = 0
    /\ chat_ctx = [a \in AgentNames |-> <<>>]
    /\ next_id = 1

\* The session of entrypoint, with its four agents.
SessionInit == SessionStart(agents)

\* No call of _truncate_chat_ctx on arbitrary inputs is explored.
NoTruncation ==
    /\ items = <<>>
    /\ keep_last_n_messages = 0
    /\ keep_system_message = FALSE
    /\ keep_function_call = FALSE
    /\ new_items = <<>>
    /\ tpc = "off"

Init ==
    /\ SessionInit
    /\ NoTruncation
    /\ track_ctx = FALSE

Next ==
    \/ CallUpdateName
    \/ CallUpdatePhone
    \/ CallToGreeter
    \/ CallGreeterToReservation
    \/ CallGreeterToTakeaway
    \/ CallUpdateReservationTime
    \/ CallConfirmReservation
    \/ CallUpdateOrder
    \/ CallToCheckout
    \/ CallConfirmExpense
    \/ CallUpdateCreditCard
    \/ CallConfirmCheckout
    \/ CallCheckoutToTakeaway
    \/ TextReply
    \/ MaxToolStepsReached
    \/ UpdateAgent
    \/ on_enter

Spec == Init /\ [][Next]_vars

\* The session with turns that can be aborted.
CancelNext ==
    \/ Next
    \/ Cancel

CancelSpec == Init /\ [][CancelNext]_vars

\* The session with the agents' chat contexts: the conversation, the
\* handoffs between greeter, reservation and takeaway, and a tool that
\* changes the record.
CtxInit ==
    /\ SessionInit
    /\ NoTruncation
    /\ track_ctx = TRUE

CtxNext ==
    \/ UserMessage
    \/ TextReply
    \/ CallGreeterToReservation
    \/ CallGreeterToTakeaway
    \/ CallToGreeter
    \/ CallUpdateName
    \/ UpdateAgent
    \/ on_enter

CtxSpec == CtxInit /\ [][CtxNext]_vars

\* The session over the dicts entrypoint could put in userdata.agents: the
\* agents of entrypoint or any part of them. The order and the handoffs are
\* exercised.
ConfigInit ==
    /\ \E names \in SUBSET AgentNames : SessionStart([n \in names |-> agents[n]])
    /\ NoTruncation
    /\ track_ctx = FALSE

ConfigNext ==
    \/ TextReply
    \/ CallGreeterToReservation
    \/ CallGreeterToTakeaway
    \/ CallToGreeter
    \/ CallUpdateOrder
    \/ CallToCheckout
    \/ CallCheckoutToTakeaway
    \/ UpdateAgent
    \/ on_enter

ConfigSpec == ConfigInit /\ [][ConfigNext]_vars

----------------------------------------------------------------------------
(* Calls of BaseAgent._truncate_chat_ctx on arbitrary inputs *)

\* Bounds of the inputs explored for _truncate_chat_ctx.
MaxLen == 5
MaxN == 4

\* A first call on the input.
Truncate ==
    /\ tpc = "input"
    /\ new_items' = truncate_chat_ctx(items, keep_last_n_messages,
                                      keep_system_message, keep_function_call)
    /\ tpc' = "once"
    /\ UNCHANGED <<agentVars, ctxVars, items, keep_last_n_messages, keep_system_message,
                   keep_function_call>>

\* A second call, with the same parameters, on the result of the first.
TruncateAgain ==
    /\ tpc = "once"
    /\ new_items' = truncate_chat_ctx(new_items, keep_last_n_messages,
                                      keep_system_message, keep_function_call)
    /\ tpc' = "twice"
    /\ UNCHANGED <<agentVars, ctxVars, items, keep_last_n_messages, keep_system_message,
                   keep_function_call>>

\* The call id of the item put at position i of the input: a function call
\* has its own, a function call output that of the item before it, which is
\* its call when that item is a function call.
CallIdAt(type, i) ==
    CASE type = "function_call" -> i
      [] type = "function_call_output" -> i - 1
      [] OTHER -> 0

TruncInit ==
    /\ SessionInit
    /\ track_ctx = FALSE
    /\ \E k \in 0..MaxLen : \E f \in [1..k -> ItemKinds] :
         items = [i \in 1..k |-> [type |-> f[i].type, role |-> f[i].role, id |-> i,
                                   call_id |-> CallIdAt(f[i].type, i)]]
    /\ keep_last_n_messages \in 0..MaxN
    /\ keep_system_message \in BOOLEAN
    /\ keep_function_call \in BOOLEAN
    /\ new_items = <<>>
    /\ tpc = "input"

TruncNext ==
    \/ Truncate
    \/ TruncateAgain

TruncSpec == TruncInit /\ [][TruncNext]_vars

----------------------------------------------------------------------------
(* Properties *)

\* A field is set to a non-empty value.
NonEmptyStr(o) == o # None /\ o # Some("")
IsSet(o) == o # None

CardNonEmpty(ud) ==
    /\ NonEmptyStr(ud.customer_credit_card)
    /\ NonEmptyStr(ud.customer_credit_card_expiry)
    /\ NonEmptyStr(ud.customer_credit_card_cvv)

\* The step is the execution of tool t, from start to return.
Runs(t) == pc = "idle" /\ steps' = steps + 1 /\ tool' = t

\* The step is the execution of some tool.
RunsTool == pc = "idle" /\ steps' = steps + 1

\* The agent a tool returned becomes the current agent in the session's next step.
HandoffApplied == pc = "handoff" => current_agent' = ret.agent /\ pc' = "entering"

\* The edges of the declared transition table.
DeclaredEdges ==
    {<<"greeter", "reservation">>, <<"greeter", "takeaway">>,
     <<"reservation", "greeter">>, <<"takeaway", "greeter">>,
     <<"takeaway", "checkout">>, <<"checkout", "greeter">>,
     <<"checkout", "takeaway">>}

\* C1: handoff is all-or-nothing. When a tool execution finishes, either
\* prev_agent and the current agent are both unchanged, or prev_agent is the
\* agent that was current before the call, the current agent is the tool's
\* target and the target's on_enter has completed.
C1_HandoffAllOrNothing ==
    [][RunsTool =>
         \/ /\ userdata'.prev_agent = userdata.prev_agent
            /\ current_agent' = current_agent
         \/ /\ userdata'.prev_agent = current_agent
            /\ current_agent' = ret'.agent
            /\ entered' = ret'.agent
            /\ pc' = "idle"]_vars

\* C2: confirm_checkout, run while checkout is current, hands off to the
\* greeter if and only if expense is set (0 included) and the three card
\* fields are set; otherwise it returns a string and checkout stays current.
C2_ConfirmCheckoutIffSet ==
    [][Runs("confirm_checkout") /\ current_agent = "checkout" =>
         IF IsSet(userdata.expense) /\ CardNonEmpty(userdata)
         THEN ret'.agent = "greeter" /\ pc' = "handoff"
         ELSE ret'.agent = NoAgent /\ current_agent' = current_agent /\ pc' = "idle"]_vars

\* C3: in every step in which checked_out changes from false to true,
\* expense and the card number, expiry and cvv are non-empty in the state
\* the step is taken in.
C3_CheckedOutOnlyAfterPayment ==
    [][~userdata.checked_out /\ userdata'.checked_out =>
         IsSet(userdata.expense) /\ CardNonEmpty(userdata)]_vars

C3_Witness ==
    /\ userdata.checked_out
    /\ tool = "confirm_checkout"
    /\ ret.agent = "greeter"

\* C4: in every reachable state one agent is current and prev_agent is the
\* agent that was current immediately before the most recent transition,
\* unset as long as no transition has happened.
C4_PrevAgentIsLastFrom ==
    /\ current_agent \in AgentNames
    /\ userdata.prev_agent = lastFrom

\* C5: the current agent changes only when the session applies the agent a
\* tool returned, never on a plain text reply, and only along a declared edge.
C5_OnlyDeclaredEdges ==
    [][/\ current_agent' # current_agent =>
            /\ pc = "handoff"
            /\ tool # NoTool
            /\ ret.agent = current_agent'
            /\ <<current_agent, current_agent'>> \in DeclaredEdges
       /\ tool' = NoTool => current_agent' = current_agent]_vars

C5_Witness ==
    /\ current_agent = "checkout"
    /\ lastFrom = "takeaway"
    /\ tool = "to_checkout"
    /\ pc = "idle"

\* C6: for every input, every N >= 0 and every setting of the flags, the
\* result of the truncation has at most N items and does not begin with a
\* function_call or function_call_output item.
C6_TruncationBounded ==
    tpc = "once" =>
        /\ Len(new_items) <= keep_last_n_messages
        /\ new_items = <<>> \/ new_items[1].type \notin FunctionCallTypes

\* C7: truncation is idempotent: applied with the same N and flags to its
\* own result, it returns that result unchanged.
C7_TruncationIdempotent ==
    tpc = "twice" =>
        new_items = truncate_chat_ctx(items, keep_last_n_messages,
                                      keep_system_message, keep_function_call)

C7_Witness ==
    /\ tpc = "twice"
    /\ Len(new_items) >= 2
    /\ Len(new_items) < Len(items)
    /\ \E i \in 1..Len(new_items) : new_items[i].type \in FunctionCallTypes

\* C8: to_checkout, run while takeaway is current, hands off to checkout if
\* and only if the order is non-empty; with an empty order it returns "No
\* takeaway order found. Please make an order first." and takeaway stays
\* current.
C8_ToCheckoutIffOrder ==
    [][/\ Runs("to_checkout") /\ current_agent = "takeaway" =>
            IF userdata.order # <<>>
            THEN ret'.agent = "checkout" /\ pc' = "handoff"
            ELSE /\ ret' = [agent |-> NoAgent,
                            msg |-> "No takeaway order found. Please make an order first."]
                 /\ current_agent' = current_agent
                 /\ pc' = "idle"
       /\ tool = "to_checkout" => HandoffApplied]_vars

C8_Witness ==
    /\ tool = "to_checkout"
    /\ userdata.order = <<>>
    /\ ret.msg = "No takeaway order found. Please make an order first."
    /\ current_agent = "takeaway"

\* C9: confirm_reservation, run while reservation is current, hands off to
\* the greeter if and only if customer_name, customer_phone and
\* reservation_time are all set to a non-empty value; otherwise it returns a
\* string and reservation stays current.
C9_ConfirmReservationIffSet ==
    [][/\ Runs("confirm_reservation") /\ current_agent = "reservation" =>
            IF /\ NonEmptyStr(userdata.customer_name)
               /\ NonEmptyStr(userdata.customer_phone)
               /\ NonEmptyStr(userdata.reservation_time)
            THEN ret'.agent = "greeter" /\ pc' = "handoff"
            ELSE ret'.agent = NoAgent /\ current_agent' = current_agent /\ pc' = "idle"
       /\ tool = "confirm_reservation" => HandoffApplied]_vars

C9_Witness ==
    /\ tool = "confirm_reservation"
    /\ current_agent = "greeter"
    /\ lastFrom = "reservation"
    /\ entered = "greeter"
    /\ NonEmptyStr(userdata.reservation_time)

\* C10: a guard failure of confirm_reservation, to_checkout or
\* confirm_checkout leaves the whole state unchanged: the current agent,
\* prev_agent, checked_out and every other field of the record.
C10_GuardFailureChangesNothing ==
    [][/\ RunsTool
       /\ tool' \in {"confirm_reservation", "to_checkout", "confirm_checkout"}
       /\ ret'.agent = NoAgent
       => /\ userdata' = userdata
          /\ current_agent' = current_agent
          /\ pc' = pc
          /\ entered' = entered]_vars

C10_Witness ==
    /\ tool = "confirm_checkout"
    /\ ret.msg = "Please provide the credit card information first."
    /\ IsSet(userdata.expense)
    /\ ~userdata.checked_out
    /\ current_agent = "checkout"

\* The step aborts the turn while a handoff is in flight.
CancelStep ==
    /\ pc \in {"handoff", "entering"}
    /\ pc' = "idle"
    /\ on_enter_runs' = on_enter_runs

\* C11: cancelling a turn between the start of a handoff tool and the
\* completion of the target's on_enter leaves prev_agent, the current agent
\* and checked_out as they were before the tool started.
C11_CancelLeavesNoPartialHandoff ==
    [][CancelStep =>
         /\ userdata'.prev_agent = before.prev_agent
         /\ current_agent' = before.current_agent
         /\ userdata'.checked_out = before.checked_out]_vars

\* C12: at most 5 chained tool calls execute in one turn. When the model
\* asks for a 6th, it is not executed: the turn ends after the 5th, the user
\* speaks next, and everything the 5 calls committed (handoffs included) stays.
C12_AtMostFiveToolCalls ==
    [][/\ steps' <= 5
       /\ pc = "idle" /\ steps = 5 =>
            /\ userdata' = userdata
            /\ current_agent' = current_agent
            /\ entered' = entered
            /\ tool' \in {tool, NoTool}
            /\ pc' = "idle"
            /\ steps' = 0]_vars

C12_Witness ==
    /\ steps = 5
    /\ pc = "idle"
    /\ tool = "to_checkout"
    /\ before.current_agent = "takeaway"
    /\ current_agent = "checkout"
    /\ entered = "checkout"

\* C13: on_enter runs exactly once each time an agent becomes current, the
\* greeter at the start of the conversation included, and its step executes
\* no tool and causes no transition.
C13_OnEnterOncePerEntry ==
    /\ pc = "entering" /\ on_enter_runs = 0
    /\ [][/\ on_enter_runs' <= 1
          /\ current_agent' # current_agent => pc' = "entering" /\ on_enter_runs' = 0
          /\ pc' # "entering" => on_enter_runs' = 1 /\ entered' = current_agent'
          /\ pc = "entering" =>
               /\ pc' = "idle"
               /\ on_enter_runs' = 1
               /\ tool' = tool
               /\ ret' = ret
               /\ steps' = steps
               /\ userdata' = userdata
               /\ current_agent' = current_agent]_vars

C13_Witness ==
    /\ current_agent = "greeter"
    /\ lastFrom = "reservation"
    /\ pc = "idle"
    /\ on_enter_runs = 1
    /\ entered = "greeter"

----------------------------------------------------------------------------
(* Chat contexts across handoffs *)

\* The function_call items of all the contexts, by id.
FunctionCallIds ==
    UNION {{chat_ctx[a][i].id : i \in {j \in 1..Len(chat_ctx[a]) :
                                        chat_ctx[a][j].type = "function_call"}} :
           a \in AgentNames}

\* The session has made exactly one tool call, t, the switch it asked for is
\* done and the new agent has entered.
OnlyCallWas(t) ==
    /\ tool = t
    /\ Cardinality(FunctionCallIds) = 1
    /\ pc = "idle"
    /\ on_enter_runs = 1

IsSummaryMessage(item, a, ud) ==
    /\ item.type = "message"
    /\ item.role = "system"
    /\ item.content = SummaryContent(a, ud)

\* C14: in a fresh session with the greeter current, to_reservation makes the
\* reservation agent current, sets prev_agent to the greeter, and leaves in
\* the reservation agent's context a system message that ends in the summary
\* of the record as it was before the call (the new record's).
C14_FreshToReservation ==
    OnlyCallWas("to_reservation") =>
        /\ current_agent = agents["reservation"]
        /\ userdata.prev_agent = agents["greeter"]
        /\ \E i \in 1..Len(chat_ctx["reservation"]) :
              IsSummaryMessage(chat_ctx["reservation"][i], "reservation", UserData)

C14_Witness ==
    /\ OnlyCallWas("to_reservation")
    /\ entered = "reservation"
    /\ lastFrom = "greeter"
    /\ Len(chat_ctx["reservation"]) >= 3

\* C15: in every reachable state the ids of the items of each agent's
\* context are pairwise distinct.
C15_IdsUnique ==
    \A a \in AgentNames :
        \A i, j \in 1..Len(chat_ctx[a]) :
            chat_ctx[a][i].id = chat_ctx[a][j].id => i = j

\* The greeter has been entered again from the reservation agent, which held
\* items transplanted from the greeter, and both hold a common item.
C15_Witness ==
    /\ current_agent = "greeter"
    /\ lastFrom = "reservation"
    /\ pc = "idle"
    /\ on_enter_runs = 1
    /\ \E i \in 1..Len(chat_ctx["greeter"]) :
          /\ chat_ctx["greeter"][i].type = "message"
          /\ chat_ctx["greeter"][i].role = "user"
          /\ chat_ctx["greeter"][i].id \in Ids(chat_ctx["reservation"])

\* The reference of truncation: the items that pass the filter, the n most
\* recent of them in chronological order, without leading function_call and
\* function_call_output items.
RefPasses(item, keep_sys, keep_fc) ==
    /\ item.type \in {"function_call", "function_call_output"} => keep_fc
    /\ (item.type = "message" /\ item.role = "system") => keep_sys

RefFilter(its, keep_sys, keep_fc) ==
    LET passes(item) == RefPasses(item, keep_sys, keep_fc) IN SelectSeq(its, passes)

RefMostRecent(its, n) ==
    IF n >= Len(its) THEN its ELSE SubSeq(its, Len(its) - n + 1, Len(its))

RefTrimLeading(its) ==
    LET kept == {i \in 1..Len(its) :
                    its[i].type \notin {"function_call", "function_call_output"}}
    IN IF kept = {} THEN <<>>
       ELSE SubSeq(its, CHOOSE i \in kept : \A j \in kept : i <= j, Len(its))

Reference(its, n, keep_sys, keep_fc) ==
    RefTrimLeading(RefMostRecent(RefFilter(its, keep_sys, keep_fc), n))

\* What the on-enter protocol transplants per the reference: the reference
\* truncation of the previous agent's context to 6 items, tool-call items
\* kept and system messages dropped, without the items whose id is present.
RefTransplanted(prev_items, own) ==
    LET fresh(item) == item.id \notin Ids(own)
    IN SelectSeq(Reference(prev_items, 6, FALSE, TRUE), fresh)

OnEnterStep == pc = "entering" /\ pc' = "idle"

\* C17: after on_enter the agent's context is its own context from before,
\* followed by the items transplanted from the previous agent (at most 6, in
\* chronological order, no system message, no id already present, tool-call
\* items retained), followed by exactly one new system message with the
\* current summary as last item; the other contexts are as before.
C17_OnEnterContext ==
    [][OnEnterStep =>
        LET own == chat_ctx[current_agent]
            new == chat_ctx'[current_agent]
            prev == userdata.prev_agent
            moved == IF prev = NoAgent THEN <<>>
                     ELSE RefTransplanted(chat_ctx[prev], own)
        IN /\ Len(moved) <= 6
           /\ \A i \in 1..Len(moved) :
                 /\ ~(moved[i].type = "message" /\ moved[i].role = "system")
                 /\ moved[i].id \notin Ids(own)
           /\ new = own \o moved \o <<new[Len(new)]>>
           /\ IsSummaryMessage(new[Len(new)], current_agent, userdata)
           /\ new[Len(new)].id \notin Ids(own) \cup Ids(moved)
           /\ \A a \in AgentNames \ {current_agent} : chat_ctx'[a] = chat_ctx[a]
    ]_vars

\* The takeaway agent has entered from the greeter and holds six items of the
\* greeter's context, a function call and its output among them, cut from
\* more, and after them the summary.
C17_Witness ==
    /\ current_agent = "takeaway"
    /\ lastFrom = "greeter"
    /\ pc = "idle"
    /\ on_enter_runs = 1
    /\ Len(chat_ctx["takeaway"]) = 7
    /\ Len(chat_ctx["greeter"]) >= 8
    /\ chat_ctx["takeaway"][5].type = "function_call"
    /\ chat_ctx["takeaway"][6].type = "function_call_output"
    /\ chat_ctx["takeaway"][7].role = "system"

\* C16: for every input, every N >= 0 and every setting of the flags, the
\* result of the truncation equals the reference.
C16_TruncationEqualsReference ==
    tpc = "once" =>
        new_items = Reference(items, keep_last_n_messages,
                              keep_system_message, keep_function_call)

----------------------------------------------------------------------------
(* The shared record *)

\* C18: the record changes in tool executions only, so that what a tool
\* wrote is what every later guard and summary reads, under whichever agent;
\* and a tool execution that hands off changes prev_agent only, and
\* checked_out when it is confirm_checkout.
C18_SingleSharedRecord ==
    [][/\ userdata' # userdata => RunsTool
       /\ (RunsTool /\ ret'.agent # NoAgent) =>
             userdata' = [userdata EXCEPT
                            !.prev_agent = current_agent,
                            !.checked_out = IF tool' = "confirm_checkout" THEN TRUE ELSE @]
    ]_vars

\* A name, which only tools of the reservation and checkout agents write, and
\* an order are in the record while the greeter is current, entered from the
\* takeaway agent.
C18_Witness ==
    /\ current_agent = "greeter"
    /\ lastFrom = "takeaway"
    /\ userdata.prev_agent = "takeaway"
    /\ pc = "idle"
    /\ userdata.customer_name = Some("x")
    /\ userdata.order = <<"pizza", "cafe">>

\* C20: update_order(items) leaves the order equal to items whatever it
\* held, and changes no other field of the record, nor the current agent.
C20_UpdateOrderOverwrites ==
    [][Runs("update_order") =>
          /\ \E its \in ListArgs :
                /\ userdata' = [userdata EXCEPT !.order = its]
                /\ ret' = [agent |-> NoAgent,
                           msg |-> "The order is updated to " \o ListStr(its)]
          /\ current_agent' = current_agent
          /\ pc' = "idle"
    ]_vars

\* A non-empty order has been replaced by the empty one.
C20_Witness ==
    /\ tool = "update_order"
    /\ ret.msg = "The order is updated to []"
    /\ userdata.order = <<>>
    /\ current_agent = "takeaway"
    /\ lastFrom = "checkout"

----------------------------------------------------------------------------
(* The agent registry *)

\* The names the handoff tools look up in userdata.agents.
HandoffTargets == {e[2] : e \in DeclaredEdges}

IsKeyError(msg) == \E n \in AgentNames : msg = KeyError(n)

----------------------------------------------------------------------------
(* Which agent's tools write which field *)

\* C21: whenever the checkout agent is the current agent, the order is not
\* empty.
C21_CheckoutHasOrder ==
    current_agent = "checkout" => userdata.order # <<>>

\* The checkout agent is current, entered from the takeaway agent with an
\* order, and its tools have run.
C21_Witness ==
    /\ current_agent = "checkout"
    /\ entered = "checkout"
    /\ pc = "idle"
    /\ lastFrom = "takeaway"
    /\ userdata.expense = Some(10)
    /\ userdata.order = <<"pizza">>
    /\ tool = "update_name"

\* The agents while which are current a field of the record may change.
Owners(field) ==
    CASE field = "reservation_time" -> {"reservation"}
      [] field = "order" -> {"takeaway"}
      [] field \in {"expense", "customer_credit_card", "customer_credit_card_expiry",
                    "customer_credit_card_cvv", "checked_out"} -> {"checkout"}
      [] field \in {"customer_name", "customer_phone"} -> {"reservation", "checkout"}
      [] field = "prev_agent" -> AgentNames
      [] field = "agents" -> {}

\* C22: a field of the record changes only while an agent that has a tool
\* for it is current; while the greeter is current no field other than
\* prev_agent changes.
C22_FieldsChangeUnderOwner ==
    [][\A field \in DOMAIN userdata :
          userdata'[field] # userdata[field] => current_agent \in Owners(field)
    ]_vars

\* Back at the greeter with fields written under each of the other agents.
C22_Witness ==
    /\ current_agent = "greeter"
    /\ pc = "idle"
    /\ userdata.reservation_time = Some("x")
    /\ userdata.customer_phone = Some("x")
    /\ userdata.order = <<"pizza">>
    /\ userdata.expense = Some(10)
    /\ userdata.checked_out
    /\ userdata.prev_agent = "checkout"

----------------------------------------------------------------------------
(* Function calls and their outputs under truncation *)

\* Every function_call_output of its comes right after its function_call.
OutputsFollowCalls(its) ==
    \A i \in 1..Len(its) :
        its[i].type = "function_call_output" =>
            /\ i > 1
            /\ its[i - 1].type = "function_call"
            /\ its[i - 1].call_id = its[i].call_id

\* Every function_call_output of its has its function_call earlier in its.
NoOrphanedOutput(its) ==
    \A i \in 1..Len(its) :
        its[i].type = "function_call_output" =>
            \E j \in 1..(i - 1) :
                /\ its[j].type = "function_call"
                /\ its[j].call_id = its[i].call_id

\* C23: when every function_call_output of the input comes right after its
\* function_call, the result of the truncation with keep_function_call = True
\* and N >= 1 has no function_call_output without its function_call before it.
C23_NoOrphanedOutput ==
    (/\ tpc = "once"
     /\ keep_function_call
     /\ keep_last_n_messages >= 1
     /\ OutputsFollowCalls(items)) => NoOrphanedOutput(new_items)

\* The cut fell between a call and its output and both were dropped, while a
\* later pair was kept whole.
C23_Witness ==
    /\ tpc = "once"
    /\ keep_function_call
    /\ OutputsFollowCalls(items)
    /\ Len(items) = 5
    /\ items[1].type = "function_call"
    /\ items[2].type = "function_call_output"
    /\ keep_last_n_messages = 4
    /\ Len(new_items) = 3
    /\ new_items[3].type = "function_call_output"

====
